---------------------------- MODULE Spec2Model ----------------------------
(***************************************************************************)
(* B1+ shimming notebooks (complex_shimming.ipynb, phase_only.ipynb and    *)
(* the CP-mode notebook): the max_SAR helper, the complex <-> real-vector  *)
(* encoding, the CoV cost and the optimization cells.                      *)
(*                                                                         *)
(* Numbers.  A complex number is a record [re, im] of integers (a Gaussian *)
(* integer), so products, sums and conjugates are exact.  Magnitudes and   *)
(* the coefficient of variation are real numbers in the code (floats);     *)
(* here they are fixed-point numbers with Scale units per 1.0, rounded     *)
(* down, and NaN is a value of its own that no comparison accepts.         *)
(* The element counts modelled are those for which the CP phases           *)
(* 2*pi*k/N are multiples of a quarter turn (N divides 4).                 *)
(***************************************************************************)
EXTENDS Integers, Sequences, FiniteSets, TLC

(***************************************************************************)
(* Bounds of the model.                                                    *)
(***************************************************************************)
MaxVop == 2        \* VOP matrices in a set: 1..MaxVop
NVox == 3          \* voxels of a field map (x*y, flattened)
Scale == 100       \* fixed-point units per 1.0 of a real (float) value
MaxMag == 1        \* largest magnitude of a candidate weight
MaxIter == 2       \* iteration budget of a constrained (SLSQP) minimize call
MaxIterBFGS == 1   \* iteration budget of an unconstrained (BFGS) minimize call
MaxShape == 2      \* longest axis of an array given to np.matmul
GridSize == 5      \* side of the simulated grid, in voxels
MaxWavelength == 20 \* wavelengths 1..MaxWavelength, in voxels
MaxLen == 3        \* longest weight vector given to the encoding functions
RoundOff == 1      \* rounding of a fixed-point result, in units of 1/Scale

\* The literal 8 of np.ones(8) and of the reshape to [.., 8] in the first
\* cell, scaled to the model's element count (the notebook's data has 8).
HardCodedTx == 2
\* the half side of the reduced region of interest: models the literal 10
ReducedHalf == 1

TxCounts == {1, 2} \* element counts n_Tx (each divides 4)

(***************************************************************************)
(* Complex arithmetic (numpy complex128 on Gaussian integers).             *)
(***************************************************************************)
C(a, b) == [re |-> a, im |-> b]
Zero == C(0, 0)
One == C(1, 0)
I == C(0, 1)
CAdd(a, b) == C(a.re + b.re, a.im + b.im)
CMul(a, b) == C(a.re * b.re - a.im * b.im, a.re * b.im + a.im * b.re)
Conj(a) == C(a.re, -a.im)
Real(a) == a.re
AbsSq(a) == a.re * a.re + a.im * a.im

RECURSIVE CSum(_)
CSum(s) == IF s = <<>> THEN Zero ELSE CAdd(Head(s), CSum(Tail(s)))

RECURSIVE SeqMax(_)
SeqMax(s) == IF Len(s) = 1 THEN s[1]
             ELSE LET m == SeqMax(Tail(s)) IN IF s[1] >= m THEN s[1] ELSE m

ConjVec(w) == [k \in 1..Len(w) |-> Conj(w[k])]

(***************************************************************************)
(* max_SAR.  vop is the array loaded from vop.npy, indexed vop[i][j][k]:   *)
(* entry (i, j) of the k-th Q matrix (shape n_Tx x n_Tx x K).              *)
(***************************************************************************)
NumVop(vop) == Len(vop[1][1])
QMatrix(vop, k) == [i \in 1..Len(vop) |-> [j \in 1..Len(vop) |-> vop[i][j][k]]]

\* vop.T: numpy reverses the axes, (N, N, K) -> (K, N, N): T[k][i][j] = vop[j][i][k]
VopT(vop) ==
    [k \in 1..NumVop(vop) |->
        [i \in 1..Len(vop) |-> [j \in 1..Len(vop) |-> vop[j][i][k]]]]

\* np.matmul(v, T) of a 1-D v with a stack T of matrices: one row vector per matrix
MatMulVecStack(v, T) ==
    [k \in 1..Len(T) |->
        [j \in 1..Len(v) |-> CSum([i \in 1..Len(v) |-> CMul(v[i], T[k][i][j])])]]

\* np.matmul(R, w) of a (K, N) array with a 1-D w: one scalar per row
MatMulRowsVec(R, w) ==
    [k \in 1..Len(R) |-> CSum([j \in 1..Len(w) |-> CMul(R[k][j], w[j])])]

\* faulty variants of max_SAR: without the conjugate, and without the maximum
MaxSARNoConj(weights, vop) ==
    LET s == MatMulRowsVec(MatMulVecStack(weights, VopT(vop)), weights)
    IN  SeqMax([k \in 1..Len(s) |-> Real(s[k])])
MaxSARFirst(weights, vop) ==
    LET s == MatMulRowsVec(MatMulVecStack(ConjVec(weights), VopT(vop)), weights)
    IN  Real(s[1])

\* np.max(np.real(np.matmul(np.matmul(np.conj(weights).T, vop.T), weights)))
max_SAR(weights, vop) ==
    LET s == MatMulRowsVec(MatMulVecStack(ConjVec(weights), VopT(vop)), weights)
    IN  SeqMax([k \in 1..Len(s) |-> Real(s[k])])

\* the Hermitian form w^H Q w of one matrix, as the documentation writes it
QuadForm(w, Q) ==
    CSum([i \in 1..Len(w) |->
        CSum([j \in 1..Len(w) |-> CMul(CMul(Conj(w[i]), Q[i][j]), w[j])])])


(***************************************************************************)
(* Real-valued numpy / scipy.stats helpers, in fixed point.                *)
(***************************************************************************)
NaN == 0 - 1       \* float nan: variation of an empty or all-zero array

RECURSIVE ISqrtBS(_, _, _)
ISqrtBS(n, lo, hi) ==
    IF lo >= hi THEN lo
    ELSE LET mid == (lo + hi + 1) \div 2
         IN  IF mid * mid <= n THEN ISqrtBS(n, mid, hi) ELSE ISqrtBS(n, lo, mid - 1)
ISqrt(n) == ISqrtBS(n, 0, IF n < 46340 THEN n ELSE 46340)

RECURSIVE Sum(_)
Sum(s) == IF s = <<>> THEN 0 ELSE Head(s) + Sum(Tail(s))

\* a faulty variant of np.abs: the imaginary part is dropped
AbsRealPart(z) == ISqrt(z.re * z.re * Scale * Scale)

\* np.abs of a complex number, a real in fixed point
Abs(z) == ISqrt(AbsSq(z) * Scale * Scale)

\* a faulty variant of variation: the standard deviation, not divided by the mean
VariationStd(m) ==
    LET n == Len(m)
        S1 == Sum(m)
        S2 == Sum([v \in 1..n |-> m[v] * m[v]])
    IN  IF n = 0 \/ S1 = 0 THEN NaN
        ELSE ISqrt(n * S2 - S1 * S1) \div n

\* scipy.stats.variation: std / mean (population std), nan when the mean is 0/0
variation(m) ==
    LET n == Len(m)
        S1 == Sum(m)
        S2 == Sum([v \in 1..n |-> m[v] * m[v]])
    IN  IF n = 0 \/ S1 = 0 THEN NaN
        ELSE (Scale * ISqrt(n * S2 - S1 * S1)) \div S1

\* float comparisons: false as soon as one side is nan
Less(a, b) == a # NaN /\ b # NaN /\ a < b
Leq(a, b) == a # NaN /\ b # NaN /\ a <= b

(***************************************************************************)
(* Weights: CP mode, the real-vector encoding, the combined field.         *)
(***************************************************************************)
\* np.exp(1j * q), q a phase in quarter turns
Exp1j(q) ==
    CASE q % 4 = 0 -> One
      [] q % 4 = 1 -> I
      [] q % 4 = 2 -> C(-1, 0)
      [] q % 4 = 3 -> C(0, -1)

\* np.angle of a number on the real or imaginary axis, in quarter turns: (-2, 2]
Angle(z) ==
    CASE z.im = 0 /\ z.re >= 0 -> 0
      [] z.re = 0 /\ z.im > 0 -> 1
      [] z.im = 0 /\ z.re < 0 -> 2
      [] z.re = 0 /\ z.im < 0 -> 0 - 1

\* np.abs of a number on an axis, exact
Magnitude(z) == ISqrt(AbsSq(z))

\* np.pi, phases of the CP mode being counted in eighths of a turn
Pi == 4

\* a faulty variant of np.linspace: the end point left out
LinspaceNoEndpoint(start, stop, num) ==
    [k \in 1..num |-> start + ((k - 1) * (stop - start)) \div num]

\* np.linspace(start, stop, num): num points, both ends included
Linspace(start, stop, num) ==
    [k \in 1..num |->
        IF num = 1 THEN start
        ELSE start + ((k - 1) * (stop - start)) \div (num - 1)]

\* np.linspace(0, 2*(np.pi - np.pi / n_Tx), n_Tx)
CPPhases(n) == Linspace(0, 2 * (Pi - (Pi \div n)), n)

\* np.exp(1j * p) in polar form: magnitude in fixed point, phase p
ExpPolar(p) == [mag |-> Scale, phase |-> p]

\* np.exp(1j * np.linspace(0, 2*(np.pi - np.pi / n_Tx), n_Tx)), in polar form
CPPolar(n) == [k \in 1..n |-> ExpPolar(CPPhases(n)[k])]

\* np.ones(n_Tx) / np.sqrt(n_Tx) * np.exp(1j * phases), in polar form
CPNormalized(n) ==
    [k \in 1..n |->
        [mag |-> (ExpPolar(CPPhases(n)[k]).mag * Scale) \div ISqrt(n * Scale * Scale),
         phase |-> CPPhases(n)[k]]]

\* np.exp(1j * np.linspace(0, 2*(np.pi - np.pi / n_Tx), n_Tx)) on the axes:
\* the phases are whole quarter turns for the element counts 1, 2 and 4
CPWeights(n) == [k \in 1..n |-> Exp1j(CPPhases(n)[k] \div 2)]

\* a faulty variant of the decoding: the phases are read from the magnitude half
VectorToComplexSameHalf(weights) ==
    LET n == Len(weights) \div 2
    IN  [k \in 1..n |-> CMul(C(weights[k], 0), Exp1j(weights[k]))]

\* functions.vector_to_complex: first half magnitudes, second half phases
vector_to_complex(weights) ==
    LET n == Len(weights) \div 2
    IN  [k \in 1..n |-> CMul(C(weights[k], 0), Exp1j(weights[n + k]))]

\* functions.complex_to_vector: magnitudes followed by phases, 2N reals
complex_to_vector(weights) ==
    [k \in 1..Len(weights) |-> Magnitude(weights[k])] \o
    [k \in 1..Len(weights) |-> Angle(weights[k])]

\* b1 @ weights: the complex-weighted sum over the element axis, per voxel
Combine(b1, weights) ==
    [v \in 1..Len(b1) |->
        CSum([k \in 1..Len(weights) |-> CMul(b1[v][k], weights[k])])]

\* np.abs(b1 @ weights)
CombinedMagnitude(b1, weights) ==
    LET b == Combine(b1, weights) IN [v \in 1..Len(b) |-> Abs(b[v])]


(***************************************************************************)
(* Mask, region of interest and cost of the complex-shimming notebook.     *)
(* A field map b1_maps is indexed b1_maps[v][k]: voxel v (the x*y voxels   *)
(* flattened), element k.                                                  *)
(***************************************************************************)
\* a faulty variant of the mask: every voxel selected
MaskEverywhere(b1) == [v \in 1..Len(b1) |-> TRUE]

\* mask = b1_maps.sum(-1) != 0
Mask(b1) == [v \in 1..Len(b1) |-> CSum(b1[v]) # Zero]

RECURSIVE KeepRows(_)
KeepRows(rows) ==
    IF rows = <<>> THEN <<>>
    ELSE IF Head(rows)[1] # Zero THEN <<Head(rows)>> \o KeepRows(Tail(rows))
         ELSE KeepRows(Tail(rows))

\* b1_roi = np.reshape(b1_maps * mask[:, :, np.newaxis], [x * y, n_Tx])
\* b1_roi = b1_roi[b1_roi[:, 0] != 0, :]
B1Roi(b1, mask) ==
    KeepRows([v \in 1..Len(b1) |->
        IF mask[v] THEN b1[v] ELSE [k \in 1..Len(b1[v]) |-> Zero]])

\* def cost_function(weights): variation(np.abs(b1_roi @ vector_to_complex(weights)))
cost_function(b1_roi, weights) ==
    variation(CombinedMagnitude(b1_roi, vector_to_complex(weights)))

RECURSIVE SelectMasked(_, _)
SelectMasked(vals, mask) ==
    IF vals = <<>> THEN <<>>
    ELSE (IF Head(mask) THEN <<Head(vals)>> ELSE <<>>) \o
         SelectMasked(Tail(vals), Tail(mask))

\* the CoV of a figure title: variation(np.abs(b1_maps @ w)[mask])
MaskCoV(b1, mask, w) == variation(SelectMasked(CombinedMagnitude(b1, w), mask))


(***************************************************************************)
(* Inputs: the arrays loaded from the data files.                          *)
(***************************************************************************)
None == <<>>

FVals == {Zero, One, I}
\* Every quantity the first cell and the SAR cell compute from a map is a
\* sum or a selection over its voxels, so maps are taken up to the order of
\* their voxels.  (The reduced region of interest selects by position: for
\* it the maps below are a part of the maps, those with ordered voxels.)
FCode(z) == IF z = Zero THEN 0 ELSE IF z = One THEN 1 ELSE 2
RECURSIVE RowCode(_)
RowCode(row) ==
    IF row = <<>> THEN 0 ELSE FCode(Head(row)) + 3 * RowCode(Tail(row))
FieldMaps(n) ==
    {m \in [1..NVox -> [1..n -> FVals]] :
        \A v \in 1..(NVox - 1) : RowCode(m[v]) <= RowCode(m[v + 1])}

\* weights on the real and imaginary axes, magnitude 0..MaxMag
WVals == {CMul(C(m, 0), Exp1j(q)) : m \in 0..MaxMag, q \in 0..3}
Weights(n) == [1..n -> WVals]

\* the real vectors 2N long the solver moves over
Candidates(n) == {complex_to_vector(w) : w \in Weights(n)}

Mat(n, d, v, u) ==
    [i \in 1..n |-> [j \in 1..n |-> IF i = j THEN d ELSE IF i < j THEN v ELSE u]]
DiagVals == {Zero, One}
OffVals == {Zero, I, C(0, -1)}
QFamily(n) == {Mat(n, d, v, u) : d \in DiagVals, v \in OffVals, u \in OffVals}

IsHermitian(Q) ==
    \A i \in 1..Len(Q) : \A j \in 1..Len(Q) : Q[i][j] = Conj(Q[j][i])
\* positive-semidefinite, by the principal minors (matrices up to 2 x 2)
IsPSD(Q) ==
    /\ IsHermitian(Q)
    /\ \A i \in 1..Len(Q) : Q[i][i].re >= 0
    /\ Len(Q) = 2 => Q[1][1].re * Q[2][2].re - AbsSq(Q[1][2]) >= 0

\* the (N, N, K) array holding the matrices Qs[1..K]
VopArray(Qs) ==
    [i \in 1..Len(Qs[1]) |-> [j \in 1..Len(Qs[1]) |-> [k \in 1..Len(Qs) |-> Qs[k][i][j]]]]
VopSets(family) ==
    {VopArray(Qs) : Qs \in UNION {[1..K -> family] : K \in 1..MaxVop}}
\* the arrays whose matrices are all different
DistinctVopSets(family) ==
    {VopArray(Qs) : Qs \in UNION {{s \in [1..K -> family] :
                                      \A a \in 1..K : \A b \in 1..K : s[a] = s[b] => a = b}
                                  : K \in 1..MaxVop}}
\* any array of matrices, for max_SAR called on its own
GeneralVops(n) == VopSets(QFamily(n))
\* a vop.npy file: Hermitian positive-semidefinite matrices, here with unit
\* diagonal, the elements uncoupled or coupled
ValidVops(n) == DistinctVopSets({Mat(n, One, Zero, Zero), Mat(n, One, I, C(0, -1))})

(***************************************************************************)
(* functions.phase_only_shimming(b1_maps): not among the source files.     *)
(* Default mask (first element non-zero), default start (zero phases),     *)
(* CoV cost over the masked voxels, a descent from the start; the result   *)
(* is exp(1j * phases).                                                    *)
(***************************************************************************)
PhaseOnlyCost(b1, phases) ==
    LET roi == B1Roi(b1, [v \in 1..Len(b1) |-> b1[v][1] # Zero])
    IN  variation(CombinedMagnitude(roi, [k \in 1..Len(phases) |-> Exp1j(phases[k])]))

phase_only_shimming(b1) ==
    LET n == Len(b1[1])
        start == [k \in 1..n |-> 0]
        found == {p \in [1..n -> 0..3] :
                    p = start \/ Less(PhaseOnlyCost(b1, p), PhaseOnlyCost(b1, start))}
    IN  {[k \in 1..n |-> Exp1j(p[k])] : p \in found}

\* the phases a phase vector can take, in quarter turns
PhaseVectors(n) == [1..n -> 0..3]

\* the cost of phase_only_shimming(b1_maps, mask, initial_weights): the CoV
\* of the combined magnitude over the voxels of the mask
PhaseOnlyCostOn(b1, m, phases) ==
    variation(SelectMasked(
        CombinedMagnitude(b1, [k \in 1..Len(phases) |-> Exp1j(phases[k])]), m))

\* a faulty variant of the call: the magnitudes are optimized as well
PhaseOnlyShimmingFree(b1, m, start) ==
    {w \in Weights(Len(start)) :
        \/ w = [k \in 1..Len(start) |-> Exp1j(start[k])]
        \/ Less(variation(SelectMasked(CombinedMagnitude(b1, w), m)),
                PhaseOnlyCostOn(b1, m, start))}

\* phase_only_shimming(b1_maps, mask, initial_weights), initial_weights a
\* vector of phases: a descent over the phases from the start
PhaseOnlyShimming(b1, m, start) ==
    LET found == {p \in PhaseVectors(Len(start)) :
                    p = start \/ Less(PhaseOnlyCostOn(b1, m, p),
                                      PhaseOnlyCostOn(b1, m, start))}
    IN  {[k \in 1..Len(start) |-> Exp1j(p[k])] : p \in found}


(***************************************************************************)
(* scipy.optimize.minimize as the cells call it.  The solver moves over    *)
(* real vectors; a step goes from the iterate x to a candidate y the       *)
(* solver accepts, and the call returns its last iterate as .x together    *)
(* with .success.                                                          *)
(***************************************************************************)
Minus(a) == C(0 - a.re, 0 - a.im)

\* one real parameter of the vector changed by one unit: a magnitude by 1
\* or a phase by a quarter turn
StepApart(a, b) ==
    /\ a # b
    /\ \/ AbsSq(CAdd(a, Minus(b))) = 1
       \/ b = CMul(I, a)
       \/ b = CMul(Minus(I), a)
Neighbour(x, y) ==
    LET wx == vector_to_complex(x)
        wy == vector_to_complex(y)
    IN  \E k \in 1..Len(wx) :
            /\ StepApart(wx[k], wy[k])
            /\ \A j \in 1..Len(wx) : j # k => wx[j] = wy[j]

\* a faulty variant of the line search: any change of the cost is taken
BFGSAcceptsChange(fx, fy) == fy # NaN /\ fy # fx

\* a faulty variant of the line search: the sign of the test is turned
BFGSAcceptsRise(fx, fy) == Less(fx, fy)

\* BFGS line search (no constraints given): sufficient decrease of the cost
BFGSAccepts(fx, fy) == Less(fy, fx)

\* the objective as the solver sees it: its value at each candidate
Table(roi, n) == [y \in Candidates(n) |-> cost_function(roi, y)]

\* the candidates one parameter step away from x
Neighbours(fun, x) == {y \in DOMAIN fun : Neighbour(x, y)}

\* BFGS stops with success where no parameter step lowers the cost
Stationary(fun, x) == \A y \in Neighbours(fun, x) : ~Less(fun[y], fun[x])

\* a faulty variant of the constraint: the sign is turned
ConsReversed(x, vop, limit) == max_SAR(vector_to_complex(x), vop) - limit

\* cons: {'type': 'ineq', 'fun': lambda x: -max_SAR(vector_to_complex(x), vop) + SAR_limit}
cons(x, vop, limit) == (0 - max_SAR(vector_to_complex(x), vop)) + limit

\* the constraint function as the solver sees it
ConsTable(v, limit, n) == [y \in Candidates(n) |-> cons(y, v, limit)]

\* how far an inequality constraint is violated (0 when cons >= 0)
Violation(c) == IF c >= 0 THEN 0 ELSE 0 - c

\* SLSQP line search (constraints given): a merit function of the cost and
\* of the violation decreases, for some penalty weight
SLSQPAccepts(fx, cx, fy, cy) ==
    /\ fx # NaN
    /\ fy # NaN
    /\ \/ fy < fx
       \/ Violation(cy) < Violation(cx)

\* SLSQP stops with success at a feasible iterate no feasible step improves
KKT(fun, con, x) ==
    /\ con[x] >= 0
    /\ \A y \in Neighbours(fun, x) : con[y] >= 0 => ~Less(fun[y], fun[x])


(***************************************************************************)
(* State: the notebook's variables, the running solver, and the argument   *)
(* and return value of a helper called on its own.                         *)
(***************************************************************************)
VARIABLES
    pc,              \* the cell (or call) being executed
    n_Tx,            \* number of transmit elements of the data
    b1_maps,         \* np.load('./data/b1_maps.npy')
    weights_CP,
    weights_PO,
    initial_weights, \* rebound by the cells: complex weights, then a real vector
    fun,             \* the objective given to minimize (cost_function)
    con,             \* the constraint function given to minimize (cons['fun'])
    x,               \* the solver's iterate (a real vector)
    nit,             \* the solver's iteration count
    weights_PM,
    weights_PM_masked, \* result of the reduced-ROI cell
    pm_success,      \* .success of the unconstrained call (not read by the cell)
    vop,             \* np.load("./data/vop.npy")
    SAR_limit,
    weights_SAR,
    sar_success,     \* .success of the constrained call (not read by the cell)
    weights,         \* argument of a helper called on its own
    ret              \* its return value

vars == <<pc, n_Tx, b1_maps, weights_CP, weights_PO, initial_weights, fun, con,
          x, nit, weights_PM, weights_PM_masked, pm_success, vop, SAR_limit, weights_SAR,
          sar_success, weights, ret>>

mask == Mask(b1_maps)
b1_roi == B1Roi(b1_maps, mask)

\* nothing bound yet
Unbound ==
    /\ weights_CP = None
    /\ weights_PO = None
    /\ initial_weights = None
    /\ fun = None
    /\ con = None
    /\ x = None
    /\ nit = 0
    /\ weights_PM = None
    /\ weights_PM_masked = None
    /\ pm_success = FALSE
    /\ SAR_limit = 0
    /\ weights_SAR = None
    /\ sar_success = FALSE
    /\ ret = None

Init ==
    /\ pc = "start"
    /\ n_Tx \in TxCounts
    /\ b1_maps \in FieldMaps(n_Tx)
    /\ vop = None
    /\ weights = None
    /\ Unbound

(***************************************************************************)
(* Cell 76c7291a: load, sTx, CP mode, phase-only shimming, then the        *)
(* phase + magnitude optimization started from the phase-only weights.     *)
(***************************************************************************)
\* b1_maps @ np.ones(8) raises ValueError unless the data has 8 elements
FirstCellFails ==
    /\ pc = "start"
    /\ n_Tx # HardCodedTx
    /\ pc' = "error"
    /\ UNCHANGED <<n_Tx, b1_maps, weights_CP, weights_PO, initial_weights, fun,
                   con, x, nit, weights_PM, weights_PM_masked, pm_success, vop, SAR_limit,
                   weights_SAR, sar_success, weights, ret>>

FirstCell ==
    /\ pc = "start"
    /\ n_Tx = HardCodedTx
    /\ weights_CP' = CPWeights(n_Tx)
    /\ \E w \in phase_only_shimming(b1_maps) :
          /\ weights_PO' = w
          /\ initial_weights' = w
          /\ x' = complex_to_vector(w)
    /\ fun' = Table(b1_roi, n_Tx)
    /\ nit' = 0
    /\ pc' = "pm_run"
    /\ UNCHANGED <<n_Tx, b1_maps, con, weights_PM, weights_PM_masked, pm_success, vop, SAR_limit,
                   weights_SAR, sar_success, weights, ret>>

BFGSStep ==
    /\ pc = "pm_run"
    /\ nit < MaxIterBFGS
    /\ ~Stationary(fun, x)
    /\ \E y \in DOMAIN fun :
          /\ BFGSAccepts(fun[x], fun[y])
          /\ x' = y
    /\ nit' = nit + 1
    /\ UNCHANGED <<pc, n_Tx, b1_maps, weights_CP, weights_PO, initial_weights,
                   fun, con, weights_PM, weights_PM_masked, pm_success, vop, SAR_limit,
                   weights_SAR, sar_success, weights, ret>>

\* weights_PM = vector_to_complex(scipy.optimize.minimize(...).x)
\* The call returns its current iterate when the gradient test is met
\* (success), when the iteration budget is used up, or when a line search
\* finds no step (precision loss): the last can happen at any iterate.
\* A cost that is not a number ends the call at once, without success.
BFGSReturn ==
    /\ pc = "pm_run"
    /\ pm_success' = (Stationary(fun, x) /\ fun[x] # NaN)
    /\ weights_PM' = vector_to_complex(x)
    /\ x' = None
    /\ nit' = 0
    /\ pc' = "pm_done"
    /\ UNCHANGED <<n_Tx, b1_maps, weights_CP, weights_PO, initial_weights, fun,
                   con, weights_PM_masked, vop, SAR_limit, weights_SAR, sar_success, weights, ret>>

(***************************************************************************)
(* Cell 6b0ec6c7: the SAR-constrained optimization.                        *)
(***************************************************************************)
SARCell ==
    /\ pc \in {"pm_done", "red_done"}
    /\ initial_weights' = complex_to_vector(weights_PO)
    /\ x' = complex_to_vector(weights_PO)
    /\ fun' = Table(b1_roi, n_Tx)
    /\ \E v \in ValidVops(n_Tx) :
          /\ vop' = v
          /\ SAR_limit' = max_SAR(weights_CP, v)
          /\ con' = ConsTable(v, max_SAR(weights_CP, v), n_Tx)
    /\ nit' = 0
    /\ pc' = "sar_run"
    /\ UNCHANGED <<n_Tx, b1_maps, weights_CP, weights_PO, weights_PM, weights_PM_masked, pm_success,
                   weights_SAR, sar_success, weights, ret>>

SLSQPStep ==
    /\ pc = "sar_run"
    /\ nit < MaxIter
    /\ ~KKT(fun, con, x)
    /\ \E y \in DOMAIN fun :
          /\ SLSQPAccepts(fun[x], con[x], fun[y], con[y])
          /\ x' = y
    /\ nit' = nit + 1
    /\ UNCHANGED <<pc, n_Tx, b1_maps, weights_CP, weights_PO, initial_weights,
                   fun, con, weights_PM, weights_PM_masked, pm_success, vop, SAR_limit,
                   weights_SAR, sar_success, weights, ret>>

\* weights_SAR = vector_to_complex(scipy.optimize.minimize(..., constraints=cons).x)
\* The call returns its current iterate when the convergence test is met
\* (success), when the iteration budget is used up, or when a line search
\* finds no step or the linearized constraints are incompatible: the last
\* two can happen at any iterate.
SLSQPReturn ==
    /\ pc = "sar_run"
    /\ sar_success' = KKT(fun, con, x)
    /\ weights_SAR' = vector_to_complex(x)
    /\ x' = None
    /\ nit' = 0
    /\ pc' = "sar_done"
    /\ UNCHANGED <<n_Tx, b1_maps, weights_CP, weights_PO, initial_weights, fun,
                   con, weights_PM, weights_PM_masked, pm_success, vop, SAR_limit, weights, ret>>

\* the "Max local SAR" value in the title of each panel of the cell's figure
ReportedSAR_PM == SAR_limit
ReportedSAR_SAR == max_SAR(weights_SAR, vop)

Next ==
    \/ FirstCellFails
    \/ FirstCell
    \/ BFGSStep
    \/ BFGSReturn
    \/ SARCell
    \/ SLSQPStep
    \/ SLSQPReturn

Spec == Init /\ [][Next]_vars


(***************************************************************************)
(* Cell 79af7ee7: the optimization over a reduced region of interest, a    *)
(* centred square.  The cells of a notebook can be run in any order once   *)
(* the names they read are bound: this cell after the first cell or after  *)
(* the SAR cell, the SAR cell after either.                                *)
(***************************************************************************)
\* a bound of a Python slice on an axis of length len
SliceBound(i, len) ==
    IF i < 0 THEN (IF i + len < 0 THEN 0 ELSE i + len)
    ELSE IF i > len THEN len ELSE i

\* the indices (from 0) the slice [a:b] selects on an axis of length len
PySlice(a, b, len) ==
    {i \in 0..(len - 1) : SliceBound(a, len) <= i /\ i < SliceBound(b, len)}

\* mask_reduced[x//2-10:x//2+10, y//2-10:y//2+10] = 1, on a map x = Len(b1)
\* voxels long and y = 1 voxel wide
MaskReduced(b1) ==
    LET xs == Len(b1)
    IN  [v \in 1..xs |->
            /\ (v - 1) \in PySlice((xs \div 2) - ReducedHalf, (xs \div 2) + ReducedHalf, xs)
            /\ 0 \in PySlice((1 \div 2) - ReducedHalf, (1 \div 2) + ReducedHalf, 1)]

mask_reduced == MaskReduced(b1_maps)
b1_roi_reduced == B1Roi(b1_maps, mask_reduced)

\* complex_to_vector(initial_weights) has twice the entries of
\* initial_weights and vector_to_complex halves them again: the product
\* b1_roi_reduced @ vector_to_complex(weights) of the first cost evaluation
\* raises ValueError unless initial_weights has n_Tx entries.
ReducedCellFails ==
    /\ pc \in {"pm_done", "red_done", "sar_done"}
    /\ Len(initial_weights) # n_Tx
    /\ fun' = Table(b1_roi_reduced, n_Tx)
    /\ pc' = "error"
    /\ UNCHANGED <<n_Tx, b1_maps, weights_CP, weights_PO, initial_weights, con,
                   x, nit, weights_PM, weights_PM_masked, pm_success, vop,
                   SAR_limit, weights_SAR, sar_success, weights, ret>>

ReducedCell ==
    /\ pc \in {"pm_done", "red_done", "sar_done"}
    /\ Len(initial_weights) = n_Tx
    /\ fun' = Table(b1_roi_reduced, n_Tx)
    /\ x' = complex_to_vector(initial_weights)
    /\ nit' = 0
    /\ pc' = "red_run"
    /\ UNCHANGED <<n_Tx, b1_maps, weights_CP, weights_PO, initial_weights, con,
                   weights_PM, weights_PM_masked, pm_success, vop, SAR_limit,
                   weights_SAR, sar_success, weights, ret>>

ReducedStep ==
    /\ pc = "red_run"
    /\ nit < MaxIterBFGS
    /\ ~Stationary(fun, x)
    /\ \E y \in DOMAIN fun :
          /\ BFGSAccepts(fun[x], fun[y])
          /\ x' = y
    /\ nit' = nit + 1
    /\ UNCHANGED <<pc, n_Tx, b1_maps, weights_CP, weights_PO, initial_weights,
                   fun, con, weights_PM, weights_PM_masked, pm_success, vop,
                   SAR_limit, weights_SAR, sar_success, weights, ret>>

\* weights_PM_masked = vector_to_complex(scipy.optimize.minimize(...).x)
ReducedReturn ==
    /\ pc = "red_run"
    /\ weights_PM_masked' = vector_to_complex(x)
    /\ x' = None
    /\ nit' = 0
    /\ pc' = "red_done"
    /\ UNCHANGED <<n_Tx, b1_maps, weights_CP, weights_PO, initial_weights, fun,
                   con, weights_PM, pm_success, vop, SAR_limit, weights_SAR,
                   sar_success, weights, ret>>

\* the maps with real values
RealFVals == {Zero, One}
CellMaps(n) ==
    {m \in FieldMaps(n) : \A v \in 1..NVox : \A k \in 1..n : m[v][k] \in RealFVals}

InitCells ==
    /\ pc = "start"
    /\ n_Tx \in TxCounts
    /\ b1_maps \in CellMaps(n_Tx)
    /\ vop = None
    /\ weights = None
    /\ Unbound

NextCells ==
    \/ Next
    \/ ReducedCellFails
    \/ ReducedCell
    \/ ReducedStep
    \/ ReducedReturn

SpecCells == InitCells /\ [][NextCells]_vars


(***************************************************************************)
(* max_SAR called on its own, on any weights and any array of matrices.    *)
(***************************************************************************)
InitSAR ==
    /\ pc = "max_SAR"
    /\ n_Tx \in TxCounts
    /\ b1_maps = None
    /\ weights \in Weights(n_Tx)
    /\ vop \in GeneralVops(n_Tx)
    /\ Unbound

CallMaxSAR ==
    /\ pc = "max_SAR"
    /\ ret' = max_SAR(weights, vop)
    /\ pc' = "max_SAR_done"
    /\ UNCHANGED <<n_Tx, b1_maps, weights_CP, weights_PO, initial_weights, fun,
                   con, x, nit, weights_PM, weights_PM_masked, pm_success, vop, SAR_limit,
                   weights_SAR, sar_success, weights>>

NextSAR == CallMaxSAR

SpecSAR == InitSAR /\ [][NextSAR]_vars

(***************************************************************************)
(* max_SAR and b1_maps @ weights called on arrays of any shapes: np.matmul *)
(* raises ValueError unless the axes it contracts have the same length.    *)
(***************************************************************************)
Raised == <<"ValueError">>
Returned(value) == <<"returned", value>>

\* np.matmul(np.conj(weights).T, vop.T) contracts the L weights with the
\* second axis of vop (vop.T reverses the axes); the product with weights
\* then contracts the first axis of vop with the L weights
SARShapesAgree(w, v) == Len(w) = Len(v[1]) /\ Len(v) = Len(w)

\* a faulty variant of the call: a mismatch gives 0 instead of an error
MaxSARCallZero(w, v) ==
    IF SARShapesAgree(w, v) THEN Returned(max_SAR(w, v)) ELSE Returned(0)

MaxSARCall(w, v) ==
    IF SARShapesAgree(w, v) THEN Returned(max_SAR(w, v)) ELSE Raised

\* b1_maps @ weights contracts the element axis of the maps with the weights
MatMulCall(b1, w) ==
    IF Len(b1[1]) = Len(w) THEN Returned(Combine(b1, w)) ELSE Raised

\* arrays of R x C x K numbers, square or not
ShapeVals == {Zero, One}
AnyShapeVops ==
    UNION {[1..rows -> [1..cols -> [1..K -> ShapeVals]]] :
              rows \in 1..MaxShape, cols \in 1..MaxShape, K \in 1..MaxVop}

InitShapes ==
    /\ pc = "shapes"
    /\ n_Tx \in TxCounts
    /\ b1_maps = [v \in 1..NVox |-> [k \in 1..n_Tx |-> One]]
    /\ weights \in UNION {Weights(L) : L \in 1..MaxShape}
    /\ vop \in AnyShapeVops
    /\ Unbound

CallMaxSARAnyShape ==
    /\ pc = "shapes"
    /\ ret' = MaxSARCall(weights, vop)
    /\ pc' = "max_SAR_done"
    /\ UNCHANGED <<n_Tx, b1_maps, weights_CP, weights_PO, initial_weights, fun,
                   con, x, nit, weights_PM, weights_PM_masked, pm_success, vop,
                   SAR_limit, weights_SAR, sar_success, weights>>

CallMatMul ==
    /\ pc = "shapes"
    /\ ret' = MatMulCall(b1_maps, weights)
    /\ pc' = "matmul_done"
    /\ UNCHANGED <<n_Tx, b1_maps, weights_CP, weights_PO, initial_weights, fun,
                   con, x, nit, weights_PM, weights_PM_masked, pm_success, vop,
                   SAR_limit, weights_SAR, sar_success, weights>>

NextShapes == CallMaxSARAnyShape \/ CallMatMul

SpecShapes == InitShapes /\ [][NextShapes]_vars


(***************************************************************************)
(* functions.simulate_b1_maps(n_Tx, wavelength): not among the source      *)
(* files.  n_Tx point sources evenly spaced on a circle around a disk;     *)
(* inside the disk the map of a source is 1/distance * exp(1j * 2 * pi *   *)
(* distance / wavelength), outside the disk it is exactly zero.  A value   *)
(* is held in polar form: magnitude in fixed point, phase in 1/Scale of a  *)
(* turn.  The grid is GridSize x GridSize voxels, flattened row by row.    *)
(***************************************************************************)
SimTxCounts == {1, 2, 4}      \* element counts whose sources lie on the axes
Wavelengths == 1..MaxWavelength

Centre == (GridSize + 1) \div 2
DiskRadius == GridSize \div 2
Row(v) == ((v - 1) \div GridSize) + 1
Col(v) == ((v - 1) % GridSize) + 1
InDisk(v) ==
    (Row(v) - Centre) * (Row(v) - Centre) + (Col(v) - Centre) * (Col(v) - Centre)
        <= DiskRadius * DiskRadius

\* source k of n, at angle 2 * pi * k / n on a circle outside the disk
TxPosition(k, n) ==
    LET e == Exp1j((k - 1) * (4 \div n))
    IN  <<Centre + GridSize * e.re, Centre + GridSize * e.im>>

\* distance of voxel v to a position, in fixed point
Distance(v, pos) ==
    ISqrt(((Row(v) - pos[1]) * (Row(v) - pos[1]) +
           (Col(v) - pos[2]) * (Col(v) - pos[2])) * Scale * Scale)

PolarZero == [mag |-> 0, phase |-> 0]

\* the wave of one source at one voxel of the disk
Wave(v, pos, wavelength) ==
    [mag |-> (Scale * Scale) \div Distance(v, pos),
     phase |-> (Distance(v, pos) \div wavelength) % Scale]

\* a faulty variant of the simulator: each source reaches only the voxels
\* nearer to it than the centre of the disk
SimulateNearField(n, wavelength) ==
    [v \in 1..(GridSize * GridSize) |->
        [k \in 1..n |->
            IF InDisk(v) /\ Distance(v, TxPosition(k, n)) < GridSize * Scale
            THEN Wave(v, TxPosition(k, n), wavelength)
            ELSE PolarZero]]

simulate_b1_maps(n, wavelength) ==
    [v \in 1..(GridSize * GridSize) |->
        [k \in 1..n |->
            IF InDisk(v) THEN Wave(v, TxPosition(k, n), wavelength)
            ELSE PolarZero]]

\* z != 0 for z = mag * exp(1j * phase): the exponential is never zero
NonZero(z) == z.mag # 0

InitSim ==
    /\ pc = "simulate"
    /\ n_Tx \in SimTxCounts
    /\ b1_maps = None
    /\ vop = None
    /\ weights = None
    /\ Unbound

\* phase_only.ipynb, cell with simulate_b1_maps(n_Tx, 90), up to the mask
SimulateCell ==
    /\ pc = "simulate"
    /\ \E wavelength \in Wavelengths :
          b1_maps' = simulate_b1_maps(n_Tx, wavelength)
    /\ weights_CP' = CPPolar(n_Tx)
    /\ pc' = "simulated"
    /\ UNCHANGED <<n_Tx, weights_PO, initial_weights, fun, con, x, nit,
                   weights_PM, weights_PM_masked, pm_success, vop, SAR_limit,
                   weights_SAR, sar_success, weights, ret>>

\* mask = b1_maps[:, :, 0] != 0
TakeMask ==
    /\ pc = "simulated"
    /\ ret' = [v \in 1..Len(b1_maps) |-> NonZero(b1_maps[v][1])]
    /\ pc' = "masked"
    /\ UNCHANGED <<n_Tx, b1_maps, weights_CP, weights_PO, initial_weights, fun,
                   con, x, nit, weights_PM, weights_PM_masked, pm_success, vop,
                   SAR_limit, weights_SAR, sar_success, weights>>

\* the cell of the wavelength sweep, up to its loop: phases, weights_sTx
\* and weights_CP, both divided by np.sqrt(n_Tx)
SweepWeights ==
    /\ pc = "simulate"
    /\ weights_CP' = CPNormalized(n_Tx)
    /\ pc' = "sweep"
    /\ UNCHANGED <<n_Tx, b1_maps, weights_PO, initial_weights, fun, con, x, nit,
                   weights_PM, weights_PM_masked, pm_success, vop, SAR_limit,
                   weights_SAR, sar_success, weights, ret>>

NextSim == SimulateCell \/ TakeMask \/ SweepWeights

SpecSim == InitSim /\ [][NextSim]_vars


(***************************************************************************)
(* phase_only.ipynb: phase-only shimming of the loaded maps, started from  *)
(* random phases, without a mask (first cell) and with one (the loop).     *)
(***************************************************************************)
InitPO ==
    /\ pc = "po"
    /\ n_Tx \in TxCounts
    /\ b1_maps \in CellMaps(n_Tx)
    /\ vop = None
    /\ weights = None
    /\ Unbound

\* weights_PO = phase_only_shimming(b1_maps, initial_weights=2*np.pi*np.random.rand(n_Tx))
PhaseOnlyCell ==
    /\ pc = "po"
    /\ \E start \in PhaseVectors(n_Tx) :
          /\ initial_weights' = start
          /\ \E w \in PhaseOnlyShimming(b1_maps,
                    [v \in 1..Len(b1_maps) |-> b1_maps[v][1] # Zero], start) :
                weights_PO' = w
    /\ pc' = "po_done"
    /\ UNCHANGED <<n_Tx, b1_maps, weights_CP, fun, con, x, nit, weights_PM,
                   weights_PM_masked, pm_success, vop, SAR_limit, weights_SAR,
                   sar_success, weights, ret>>

\* phase_only_shimming(b1_maps, mask, 2*np.pi*np.random.rand(n_Tx)), the
\* function being given any mask
PhaseOnlyMasked ==
    /\ pc = "po"
    /\ \E start \in PhaseVectors(n_Tx) : \E m \in [1..Len(b1_maps) -> BOOLEAN] :
          /\ initial_weights' = start
          /\ ret' = m
          /\ \E w \in PhaseOnlyShimming(b1_maps, m, start) : weights_PO' = w
    /\ pc' = "po_masked_done"
    /\ UNCHANGED <<n_Tx, b1_maps, weights_CP, fun, con, x, nit, weights_PM,
                   weights_PM_masked, pm_success, vop, SAR_limit, weights_SAR,
                   sar_success, weights>>

NextPO == PhaseOnlyCell \/ PhaseOnlyMasked

SpecPO == InitPO /\ [][NextPO]_vars


(***************************************************************************)
(* The CoV of the sTx / CP comparison and of the wavelength sweep, for a   *)
(* weight vector and for the same vector times a complex scalar.  Here the *)
(* weights are complex numbers in fixed point (re and im in 1/Scale), so   *)
(* that 1/sqrt(n_Tx) and factors below 1 can be written; the maps are the  *)
(* integer-valued maps, and a combined field is in 1/Scale as well.        *)
(***************************************************************************)
\* 1 / np.sqrt(n), in fixed point
InvSqrt(n) == (Scale * Scale) \div ISqrt(n * Scale * Scale)

\* the non-zero scalars tried: 1 / sqrt(n) of the sweep, and every scalar
\* with real and imaginary part among -1, 0, 1/2, 1, 2
Scalars(n) ==
    LET parts == {0 - Scale, 0, Scale \div 2, Scale, 2 * Scale}
    IN  ({C(a, b) : a \in parts, b \in parts} \ {Zero}) \cup {C(InvSqrt(n), 0)}

\* c * w for a weight vector w on the integer grid
ScaledWeights(c, w) == [k \in 1..Len(w) |-> CMul(c, w[k])]

\* variation(np.abs(b1[b1 != 0])) for b1 = b1_maps @ w, w in fixed point
CoVNonZero(b1, w) ==
    LET b == Combine(b1, w)
    IN  variation(SelectMasked([v \in 1..Len(b) |-> Magnitude(b[v])],
                               [v \in 1..Len(b) |-> b[v] # Zero]))

InitScale ==
    /\ pc = "scale"
    /\ n_Tx \in TxCounts
    /\ b1_maps \in FieldMaps(n_Tx)
    /\ weights \in Weights(n_Tx)
    /\ vop = None
    /\ Unbound

\* the CoV with the weights as they are and with the weights times c
CoVOfScaled ==
    /\ pc = "scale"
    /\ \E c \in Scalars(n_Tx) :
          ret' = [scalar |-> c,
                  plain  |-> CoVNonZero(b1_maps, ScaledWeights(C(Scale, 0), weights)),
                  scaled |-> CoVNonZero(b1_maps, ScaledWeights(c, weights))]
    /\ pc' = "scale_done"
    /\ UNCHANGED <<n_Tx, b1_maps, weights_CP, weights_PO, initial_weights, fun,
                   con, x, nit, weights_PM, weights_PM_masked, pm_success, vop, SAR_limit,
                   weights_SAR, sar_success, weights>>

NextScale == CoVOfScaled

SpecScale == InitScale /\ [][NextScale]_vars

(***************************************************************************)
(* complex_to_vector, then vector_to_complex on its result.                *)
(***************************************************************************)
InitCodec ==
    /\ pc = "encode"
    /\ n_Tx \in 1..MaxLen
    /\ b1_maps = None
    /\ weights \in Weights(n_Tx)
    /\ vop = None
    /\ Unbound

CallComplexToVector ==
    /\ pc = "encode"
    /\ x' = complex_to_vector(weights)
    /\ pc' = "decode"
    /\ UNCHANGED <<n_Tx, b1_maps, weights_CP, weights_PO, initial_weights, fun,
                   con, nit, weights_PM, weights_PM_masked, pm_success, vop, SAR_limit,
                   weights_SAR, sar_success, weights, ret>>

CallVectorToComplex ==
    /\ pc = "decode"
    /\ ret' = vector_to_complex(x)
    /\ pc' = "codec_done"
    /\ UNCHANGED <<n_Tx, b1_maps, weights_CP, weights_PO, initial_weights, fun,
                   con, x, nit, weights_PM, weights_PM_masked, pm_success, vop, SAR_limit,
                   weights_SAR, sar_success, weights>>

NextCodec == CallComplexToVector \/ CallVectorToComplex

SpecCodec == InitCodec /\ [][NextCodec]_vars

(***************************************************************************)
(* np.abs(b1_maps @ weights) for weights of unit magnitude.                *)
(***************************************************************************)
UnitConstants == {Exp1j(q) : q \in 0..3}
UnitWeights(n) == [1..n -> UnitConstants]

InitCombine ==
    /\ pc = "combine"
    /\ n_Tx \in TxCounts
    /\ b1_maps \in FieldMaps(n_Tx)
    /\ weights \in UnitWeights(n_Tx)
    /\ vop = None
    /\ Unbound

CallCombine ==
    /\ pc = "combine"
    /\ ret' = CombinedMagnitude(b1_maps, weights)
    /\ pc' = "combine_done"
    /\ UNCHANGED <<n_Tx, b1_maps, weights_CP, weights_PO, initial_weights, fun,
                   con, x, nit, weights_PM, weights_PM_masked, pm_success, vop, SAR_limit,
                   weights_SAR, sar_success, weights>>

NextCombine == CallCombine

SpecCombine == InitCombine /\ [][NextCombine]_vars


(***************************************************************************)
(* The region of interest of the cost, computed on its own from any field  *)
(* map, the maps of the elements cancelling at some voxels or not.         *)
(***************************************************************************)
SignedFVals == FVals \cup {C(0 - 1, 0)}

InitRoi ==
    /\ pc = "roi"
    /\ n_Tx \in TxCounts
    /\ b1_maps \in [1..NVox -> [1..n_Tx -> SignedFVals]]
    /\ vop = None
    /\ weights = None
    /\ Unbound

\* mask = b1_maps.sum(-1) != 0, then the two lines binding b1_roi
CallB1Roi ==
    /\ pc = "roi"
    /\ ret' = B1Roi(b1_maps, Mask(b1_maps))
    /\ pc' = "roi_done"
    /\ UNCHANGED <<n_Tx, b1_maps, weights_CP, weights_PO, initial_weights, fun,
                   con, x, nit, weights_PM, weights_PM_masked, pm_success, vop, SAR_limit,
                   weights_SAR, sar_success, weights>>

\* the index of the title "CoV outside ROI": mask - mask_reduced != 0, the
\* boolean mask less the 0/1 floating-point square, voxel by voxel
OutsideROI(b1) ==
    [v \in 1..Len(b1) |->
        ((IF Mask(b1)[v] THEN 1 ELSE 0) - (IF MaskReduced(b1)[v] THEN 1 ELSE 0)) # 0]

\* the voxels the title selects, on the maps of the cell
OutsideROITitle ==
    /\ pc = "roi"
    /\ ret' = OutsideROI(b1_maps)
    /\ pc' = "outside_done"
    /\ UNCHANGED <<n_Tx, b1_maps, weights_CP, weights_PO, initial_weights, fun,
                   con, x, nit, weights_PM, weights_PM_masked, pm_success, vop, SAR_limit,
                   weights_SAR, sar_success, weights>>

NextRoi == CallB1Roi \/ OutsideROITitle

SpecRoi == InitRoi /\ [][NextRoi]_vars


(***************************************************************************)
(* Cell 1bca9068: the cost of the target-value (MLS) optimization, called  *)
(* on its own on the rows of b1_roi at any real vector.                    *)
(***************************************************************************)
\* target = 60 (nT/V); the model's fields have magnitude 0, 1, sqrt(2), 2,
\* and its target is the value 1 in fixed point
target == Scale

\* def cost_function_MLS(weights), on the rows roi
cost_function_MLS(roi, w) ==
    LET b1_abs == CombinedMagnitude(roi, vector_to_complex(w))
    IN  Sum([v \in 1..Len(b1_abs) |-> (b1_abs[v] - target) * (b1_abs[v] - target)])

InitMLS ==
    /\ pc = "mls"
    /\ n_Tx \in TxCounts
    /\ b1_maps \in FieldMaps(n_Tx)
    /\ weights \in Candidates(n_Tx)
    /\ vop = None
    /\ Unbound

CallCostMLS ==
    /\ pc = "mls"
    /\ ret' = cost_function_MLS(b1_roi, weights)
    /\ pc' = "mls_done"
    /\ UNCHANGED <<n_Tx, b1_maps, weights_CP, weights_PO, initial_weights, fun,
                   con, x, nit, weights_PM, weights_PM_masked, pm_success, vop, SAR_limit,
                   weights_SAR, sar_success, weights>>

NextMLS == CallCostMLS

SpecMLS == InitMLS /\ [][NextMLS]_vars


(***************************************************************************)
(* Properties of max_SAR (under SpecSAR).                                  *)
(***************************************************************************)
\* the documented local SAR: the largest Re(w^H Q w) over the matrices Q
MaxQuadForm(w, v) ==
    SeqMax([k \in 1..NumVop(v) |-> Real(QuadForm(w, QMatrix(v, k)))])

AllPSD(v) == \A k \in 1..NumVop(v) : IsPSD(QMatrix(v, k))

\* C1: max_SAR(w, vop) is the largest, over the matrices Q of the set, of
\* the real part of w^H Q w, with Q itself and not its transpose (here on
\* Hermitian positive-semidefinite matrices only, the valid VOP input).
C1_MaxSARIsQuadraticForm ==
    (pc = "max_SAR_done" /\ AllPSD(vop)) => ret = MaxQuadForm(weights, vop)

Orders(K) ==
    {p \in [1..K -> 1..K] : \A a \in 1..K : \A b \in 1..K : p[a] = p[b] => a = b}
\* the array with its matrices in the order p
Reorder(v, p) ==
    [i \in 1..Len(v) |-> [j \in 1..Len(v) |-> [k \in 1..NumVop(v) |-> v[i][j][p[k]]]]]
\* the array holding matrix k alone
Single(v, k) ==
    [i \in 1..Len(v) |-> [j \in 1..Len(v) |-> <<v[i][j][k]>>]]

\* C9: max_SAR(w, vop) is the same for every order of the matrices of the
\* VOP set.
C9_OrderIndependent ==
    pc = "max_SAR_done" =>
        \A p \in Orders(NumVop(vop)) : max_SAR(weights, Reorder(vop, p)) = ret

\* two matrices that give different values, so an order could matter
C9_Witness ==
    /\ pc = "max_SAR_done"
    /\ NumVop(vop) = 2
    /\ max_SAR(weights, Single(vop, 1)) < max_SAR(weights, Single(vop, 2))
    /\ ret = max_SAR(weights, Single(vop, 2))

\* C10: for a non-empty VOP set of Hermitian positive-semidefinite matrices
\* max_SAR returns a real number that is at least zero.
C10_NonNegative ==
    (pc = "max_SAR_done" /\ AllPSD(vop)) => ret >= 0

\* a coupled (non-diagonal) PSD matrix on non-zero weights, at the bound 0
C10_Witness ==
    /\ pc = "max_SAR_done"
    /\ AllPSD(vop)
    /\ n_Tx = 2
    /\ QMatrix(vop, 1)[1][2] # Zero
    /\ \A k \in 1..n_Tx : weights[k] # Zero
    /\ ret = 0

(***************************************************************************)
(* Properties of the encoding (under SpecCodec).                           *)
(***************************************************************************)
\* C7: decoding the encoding of a complex weight vector of any length
\* N >= 1 gives the vector back, and the encoding has 2N real entries.
C7_RoundTrip ==
    /\ pc \in {"decode", "codec_done"} => Len(x) = 2 * Len(weights)
    /\ pc = "codec_done" => ret = weights

\* the longest vector, with a zero weight and a weight of negative phase
C7_Witness ==
    /\ pc = "codec_done"
    /\ Len(weights) = MaxLen
    /\ weights[1] = C(0, -1)
    /\ weights[2] = Zero
    /\ Len(x) = 2 * MaxLen
    /\ ret = weights

(***************************************************************************)
(* Properties of the combined field (under SpecCombine).                   *)
(***************************************************************************)
Rotate(c, w) == [k \in 1..Len(w) |-> CMul(c, w[k])]

\* C8: multiplying all weights of a unit-magnitude weight vector by the same
\* unit-modulus constant leaves the magnitude of the combined field the
\* same at every voxel, and so leaves the CoV over the mask the same.
C8_GlobalPhase ==
    pc = "combine_done" =>
        \A c \in UnitConstants :
            /\ CombinedMagnitude(b1_maps, Rotate(c, weights)) = ret
            /\ MaskCoV(b1_maps, mask, Rotate(c, weights))
                   = MaskCoV(b1_maps, mask, weights)

\* a voxel whose combined field is neither real nor imaginary
C8_Witness ==
    /\ pc = "combine_done"
    /\ n_Tx = 2
    /\ weights[1] # weights[2]
    /\ \E v \in 1..NVox :
          LET b == Combine(b1_maps, weights)[v]
          IN  b.re # 0 /\ b.im # 0 /\ ret[v] > 0

(***************************************************************************)
(* Properties of the notebook's cells (under Spec).                        *)
(***************************************************************************)
\* the cost of complex weights, as the solver is given it
CostOf(w) == fun[complex_to_vector(w)]
\* the CoV a figure title reports for complex weights
CoVOverMask(w) == MaskCoV(b1_maps, mask, w)
\* every voxel of the mask is a voxel of the cost
SameVoxels == \A v \in 1..NVox : mask[v] => b1_maps[v][1] # Zero

\* C2: the SAR-constrained optimization returns weights whose max_SAR is at
\* most SAR_limit, whatever the SAR of the weights it starts from.
C2_ResultWithinLimit ==
    pc = "sar_done" => max_SAR(weights_SAR, vop) <= SAR_limit

C5_MaskCoVNotIncreased ==
    (weights_PM # None /\ CoVOverMask(weights_PO) # NaN
                       /\ CoVOverMask(weights_PM) # NaN) =>
        CoVOverMask(weights_PM) <= CoVOverMask(weights_PO)

C11_ResultHasNEntries ==
    /\ pc \notin {"start", "pm_run"} =>
          (weights_PM # None /\ Len(weights_PM) = n_Tx)
    /\ pc = "sar_done" => Len(weights_SAR) = n_Tx


(***************************************************************************)
(* The voxels of the cost (under SpecRoi).                                 *)
(***************************************************************************)
\* the rows of a map at the voxels a predicate keeps, in voxel order
RowsWhere(b1, keep) == SelectMasked(b1, [v \in 1..Len(b1) |-> keep[v]])

\* C12 as stated: the objective is evaluated over exactly the voxels where
\* the first element's field map is non-zero.
C12_FirstElementVoxels ==
    pc = "roi_done" =>
        ret = RowsWhere(b1_maps, [v \in 1..NVox |-> b1_maps[v][1] # Zero])

\* C12: the objective is evaluated over exactly the voxels where the first
\* element's field map is non-zero and the maps of the elements do not sum
\* to zero.
C12_FirstElementAndSumVoxels ==
    pc = "roi_done" =>
        ret = RowsWhere(b1_maps, [v \in 1..NVox |->
                  b1_maps[v][1] # Zero /\ CSum(b1_maps[v]) # Zero])

\* a voxel where the first element's map is non-zero and the maps cancel,
\* next to a voxel the cost keeps
C12_Witness ==
    /\ pc = "roi_done"
    /\ \E v \in 1..NVox : b1_maps[v][1] # Zero /\ CSum(b1_maps[v]) = Zero
    /\ ret # <<>>

\* C24: the voxels over which the cost is minimized are the voxels over
\* which the CoV of the result is reported, the voxels of the mask: no voxel
\* of the mask is missing from the rows of the cost.
C24_CostVoxelsAreMaskVoxels ==
    pc = "roi_done" => ret = RowsWhere(b1_maps, mask)

\* C25: the voxels of the reported "CoV outside ROI" are the voxels that
\* are in the mask and not in the reduced square, whatever the map and the
\* mask, the square lying wholly inside the mask or not.
C25_OutsideIsMaskLessSquare ==
    pc = "outside_done" =>
        \A v \in 1..NVox : ret[v] <=> (mask[v] /\ ~mask_reduced[v])


(***************************************************************************)
(* Degenerate inputs and order of the cells (under SpecCells).             *)
(***************************************************************************)
\* C13: an optimization whose mask selects no voxel returns no weight
\* vector: when the reduced region of interest holds no voxel of a map
\* that has voxels of its own, weights_PM_masked is never bound.
C13_EmptyMaskReturnsNothing ==
    (b1_roi # <<>> /\ b1_roi_reduced = <<>>) => weights_PM_masked = None


(***************************************************************************)
(* Status of the solver calls (under Spec).                                *)
(***************************************************************************)
\* C14: a vector the SAR-constrained optimization ends on is accepted as
\* weights_SAR only when it satisfies the constraint and improves on the
\* start; any other outcome is kept away from weights_SAR.
C14_AcceptedIsFeasibleAndBetter ==
    pc = "sar_done" =>
        /\ max_SAR(weights_SAR, vop) <= SAR_limit
        /\ Less(CostOf(weights_SAR), CostOf(weights_PO))


\* C15: when the unconstrained solver has used up its iteration budget
\* without meeting its tolerance, the call can still end, and the only
\* thing it does is end: no error, weights_PM bound to the current iterate.
\* Every step of the solver lowers the cost, so the current iterate is the
\* best one found.
C15_BudgetExhaustedReturnsBest ==
    /\ [](pc = "pm_run" /\ nit = MaxIterBFGS => ENABLED BFGSReturn)
    /\ [][/\ (pc = "pm_run" /\ nit = MaxIterBFGS) =>
                (pc' = "pm_done" /\ weights_PM' = vector_to_complex(x))
          /\ (pc = "pm_run" /\ pc' = "pm_run") => Less(fun[x'], fun[x])]_vars

\* the budget is used up at an iterate that is not stationary
C15_Witness ==
    /\ pc = "pm_run"
    /\ nit = MaxIterBFGS
    /\ ~Stationary(fun, x)


(***************************************************************************)
(* Arrays of the wrong shape (under SpecShapes).                           *)
(***************************************************************************)
\* C16 as stated: max_SAR gives no number when the weight count or an axis
\* of the VOP matrices differs from the element count, and b1_maps @ weights
\* gives none when the weight count differs from the element count.
C16_MismatchWithElementCountReported ==
    /\ (pc = "max_SAR_done" /\
        (Len(weights) # n_Tx \/ Len(vop) # n_Tx \/ Len(vop[1]) # n_Tx)) =>
            ret = Raised
    /\ (pc = "matmul_done" /\ Len(weights) # n_Tx) => ret = Raised

\* C16: max_SAR raises ValueError, and gives no number, exactly when the
\* weight count and the two matrix axes of the VOP array are not all equal;
\* b1_maps @ weights raises ValueError exactly when the weight count differs
\* from the element count of the maps.
C16_MismatchedShapesRaise ==
    /\ pc = "max_SAR_done" =>
          (ret = Raised <=>
              (Len(vop) # Len(vop[1]) \/ Len(weights) # Len(vop)))
    /\ pc = "matmul_done" => (ret = Raised <=> Len(weights) # n_Tx)

\* max_SAR has raised on matrices that are not square, given as many
\* weights as the matrices have rows
C16_Witness ==
    /\ pc = "max_SAR_done"
    /\ Len(vop) # Len(vop[1])
    /\ Len(weights) = Len(vop)
    /\ ret = Raised


(***************************************************************************)
(* Order of the cells (under SpecCells).                                   *)
(***************************************************************************)
\* C18: an optimization cell gives its result whatever optimization cells
\* ran before it: once the first cell has bound weights_PM, no later cell
\* ends in an error, the reduced-ROI cell run after the SAR cell included.
C18_ResultIndependentOfEarlierCells ==
    pc = "error" => weights_PM = None


(***************************************************************************)
(* The simulated maps (under SpecSim).                                     *)
(***************************************************************************)
\* C19: for every element count and every wavelength, the simulated field
\* map is zero at the same voxels in all its element slices, so the mask
\* taken from element 0 is the mask of every element.
C19_SamePatternInAllSlices ==
    /\ pc \in {"simulated", "masked"} =>
          \A v \in 1..Len(b1_maps) : \A k \in 1..n_Tx :
              NonZero(b1_maps[v][k]) <=> NonZero(b1_maps[v][1])
    /\ pc = "masked" =>
          \A v \in 1..Len(b1_maps) : \A k \in 1..n_Tx :
              ret[v] <=> NonZero(b1_maps[v][k])

\* a map of several elements, its mask taken, with voxels in and out of it
C19_Witness ==
    /\ pc = "masked"
    /\ n_Tx > 1
    /\ \E v \in 1..Len(b1_maps) : ret[v]
    /\ \E v \in 1..Len(b1_maps) : ~ret[v]


(***************************************************************************)
(* The CP-mode weights (under SpecSim).                                    *)
(***************************************************************************)
\* the phase 2*pi*k/N of element k, counted from 0, in eighths of a turn
EvenPhase(k, n) == (k * 2 * Pi) \div n

\* C20 as stated: every CP-mode weight vector built for N elements has
\* magnitude 1 on every element and phase 2*pi*k/N on element k.
C20_UnitMagnitudeEvenPhases ==
    weights_CP # None =>
        \A k \in 1..n_Tx :
            /\ weights_CP[k].mag = Scale
            /\ weights_CP[k].phase = EvenPhase(k - 1, n_Tx)

\* C20: every CP-mode weight vector built for N elements has phase 2*pi*k/N
\* on element k, the last phase being 2*pi*(1 - 1/N); its magnitudes are 1,
\* except in the wavelength sweep, where they are 1/sqrt(N).
C20_EvenPhasesUnitOrNormalized ==
    weights_CP # None =>
        /\ Len(weights_CP) = n_Tx
        /\ \A k \in 1..n_Tx : weights_CP[k].phase = EvenPhase(k - 1, n_Tx)
        /\ weights_CP[n_Tx].phase = 2 * Pi - EvenPhase(1, n_Tx)
        /\ pc # "sweep" => \A k \in 1..n_Tx : weights_CP[k].mag = Scale
        /\ pc = "sweep" =>
              \A k \in 1..n_Tx :
                  LET m == weights_CP[k].mag
                  IN  m * m * n_Tx <= Scale * Scale /\
                      Scale * Scale < (m + 1) * (m + 1) * n_Tx

\* the sweep's CP weights for four elements: magnitude one half
C20_Witness ==
    /\ pc = "sweep"
    /\ n_Tx = 4
    /\ weights_CP[4] = [mag |-> Scale \div 2, phase |-> 6]


(***************************************************************************)
(* Phase-only shimming (under SpecPO).                                     *)
(***************************************************************************)
\* C21: the weights phase-only shimming returns all have magnitude exactly
\* 1, one per element, for every field map, mask and initial phase vector.
C21_UnitMagnitudes ==
    pc \in {"po_done", "po_masked_done"} =>
        /\ Len(weights_PO) = n_Tx
        /\ \A k \in 1..n_Tx : AbsSq(weights_PO[k]) = 1

\* a call that has moved the phases away from the initial ones
C21_Witness ==
    /\ pc = "po_masked_done"
    /\ n_Tx = 2
    /\ weights_PO # [k \in 1..n_Tx |-> Exp1j(initial_weights[k])]
    /\ \A k \in 1..n_Tx : AbsSq(weights_PO[k]) = 1


\* C26: the max local SAR reported for a shim solution is max_SAR at that
\* solution's own weights: max_SAR(weights_PM, vop) for the unconstrained
\* solution, max_SAR(weights_SAR, vop) for the constrained one.
C26_ReportedSAROfOwnWeights ==
    pc = "sar_done" =>
        /\ ReportedSAR_PM = max_SAR(weights_PM, vop)
        /\ ReportedSAR_SAR = max_SAR(weights_SAR, vop)


\* the combined field magnitude at the voxels of the mask
MaskMagnitudes == SelectMasked(CombinedMagnitude(b1_maps, vector_to_complex(weights)), mask)

\* C27: the target-value cost of a weight vector is the sum over the voxels
\* of the mask of (|combined field| - target)^2, and it is zero exactly when
\* the combined field magnitude is the target at every voxel of the mask.
C27_CostIsSquaredDeviationOverMask ==
    pc = "mls_done" =>
        /\ ret = Sum([v \in 1..Len(MaskMagnitudes) |->
                     (MaskMagnitudes[v] - target) * (MaskMagnitudes[v] - target)])
        /\ (ret = 0) <=> (\A v \in 1..Len(MaskMagnitudes) : MaskMagnitudes[v] = target)


\* C28: the CoV of the combined field is the same for a weight vector and
\* for that vector times any non-zero complex scalar, of any magnitude and
\* phase (the results agree to the rounding of the fixed-point arithmetic,
\* and one is nan exactly when the other is).
C28_CoVUnchangedByScalar ==
    pc = "scale_done" =>
        /\ (ret.plain = NaN) <=> (ret.scaled = NaN)
        /\ ret.plain - ret.scaled <= RoundOff
        /\ ret.scaled - ret.plain <= RoundOff

\* the sweep's 1/sqrt(n_Tx) on two elements, the field not uniform
C28_Witness ==
    /\ pc = "scale_done"
    /\ n_Tx = 2
    /\ ret.scalar = C(InvSqrt(n_Tx), 0)
    /\ ret.plain > 0
    /\ ret.scaled > 0

==========================================================================
